---- MODULE Spec2Model ----
(***************************************************************************)
(* Model of the DQ backend's upload-and-profile path:                      *)
(*   app/main.py         upload_dataset (request handler, persistence)     *)
(*   app/dq_profiler.py  profile_dataset and its helpers                   *)
(*   app/config.py       directories, row cap, top-K                       *)
(*                                                                         *)
(* Text (file names, paths, dtype names) is a sequence of one-character    *)
(* strings, so that lower(), endswith(), startswith() and splitext() are   *)
(* computed on the characters.  An optional value (a Python None or a      *)
(* value, a null cell or a cell) is a sequence of length 0 or 1.  A float  *)
(* is an exact number [num, den, root] standing for (num/den)^(1/root).    *)
(***************************************************************************)
EXTENDS Integers, Sequences, FiniteSets, TLC

\* ------------------------------------------------------------------ bounds

\* Physical rows times columns of an uploaded file.
MaxCells == 3
\* Upload requests served in one behaviour.
MaxRequests == 2

\* Non-null cell values; for a text column they stand for distinct strings,
\* for a date column for distinct instants.
Vals == {1, 2}

\* ------------------------------------------------------------------ config

DATA_RAW_DIR == <<"d","a","t","a","/","r","a","w">>
DATA_PARQUET_DIR == <<"d","a","t","a","/","p","a","r","q","u","e","t">>
\* DQ_MAX_ROWS_PROFILE and DQ_MAX_TOP_K are read from the environment; the
\* model runs the service configured with a cap of 2 rows and a top-2.
MAX_ROWS_PROFILE == 2
MAX_TOP_K == 2
\* _sample_values' max_samples default.
MAX_SAMPLES == 5

\* ------------------------------------------------------------------ text

LowerChar(c) ==
    CASE c = "C" -> "c"
      [] c = "S" -> "s"
      [] c = "V" -> "v"
      [] c = "P" -> "p"
      [] c = "Q" -> "q"
      [] c = "A" -> "a"
      [] OTHER -> c

\* str.lower()
Lower(s) == [i \in 1..Len(s) |-> LowerChar(s[i])]

\* str.startswith(pre)
StartsWith(s, pre) ==
    /\ Len(pre) <= Len(s)
    /\ SubSeq(s, 1, Len(pre)) = pre

\* str.endswith(suf)
EndsWith(s, suf) ==
    /\ Len(suf) <= Len(s)
    /\ SubSeq(s, Len(s) - Len(suf) + 1, Len(s)) = suf

\* os.path.splitext(name)[1]: from the last dot to the end, unless that dot
\* is preceded only by dots (a leading dot starts no extension).
SplitExt(name) ==
    LET dots == {i \in 1..Len(name) : name[i] = "."}
        last == CHOOSE i \in dots : \A j \in dots : j <= i
    IN  IF dots = {} THEN <<>>
        ELSE IF \A j \in 1..(last - 1) : name[j] = "." THEN <<>>
        ELSE SubSeq(name, last, Len(name))

\* os.path.join(dir, name) for a relative name
PathJoin(dir, name) == dir \o <<"/">> \o name

EXT_CSV == <<".","c","s","v">>
EXT_PARQUET == <<".","p","a","r","q","u","e","t">>
EXT_PQ == <<".","p","q">>

\* ------------------------------------------------------------------ dtypes

NUMERIC_DTYPES ==
    { <<"I","n","t","8">>, <<"I","n","t","1","6">>, <<"I","n","t","3","2">>,
      <<"I","n","t","6","4">>,
      <<"U","I","n","t","8">>, <<"U","I","n","t","1","6">>,
      <<"U","I","n","t","3","2">>, <<"U","I","n","t","6","4">>,
      <<"F","l","o","a","t","3","2">>, <<"F","l","o","a","t","6","4">> }

DT_DATE == <<"D","a","t","e">>
DT_DATETIME == <<"D","a","t","e","t","i","m","e">>
DT_UTF8 == <<"U","t","f","8">>
DT_CATEGORICAL == <<"C","a","t","e","g","o","r","i","c","a","l">>

_is_numeric_dtype(dtype) == dtype \in NUMERIC_DTYPES

_is_datetime_dtype(dtype) == dtype = DT_DATE \/ StartsWith(dtype, DT_DATETIME)

_is_categorical_dtype_wide(dtype) == dtype \in {DT_UTF8, DT_CATEGORICAL, DT_DATE}

_is_categorical_dtype(dtype) == dtype \in {DT_UTF8, DT_CATEGORICAL}

\* ------------------------------------------------------------------ values

\* Python None, a null cell
None == <<>>
Some(v) == <<v>>

RECURSIVE Gcd(_, _)
Gcd(a, b) == IF b = 0 THEN a ELSE Gcd(b, a % b)

Abs(n) == IF n < 0 THEN -n ELSE n

\* The exact value (n/d)^(1/root), d > 0, in lowest terms; zero is 0/1, root 1.
Number(n, d, root) ==
    LET g == Gcd(Abs(n), d)
    IN  IF n = 0 THEN [num |-> 0, den |-> 1, root |-> 1]
        ELSE [num |-> n \div g, den |-> d \div g, root |-> root]

\* float(v) of an integer, float(a / b), sqrt(a / b)
PyFloat(v) == Number(v, 1, 1)
PyDiv(a, b) == Number(a, b, 1)
PySqrt(a, b) == Number(a, b, 2)
ZERO == PyFloat(0)

\* str(x) of an optional value: the text of the value, or "None"
PyStr(opt) == [str_of |-> opt]

\* ------------------------------------------------------------------ series
\* A pl.Series is [name, dtype, data]; data is a sequence of cells, each None
\* (null) or Some(v).

IsValue(cell) == cell # None

\* Series.drop_nulls(), as the sequence of the values
DropNulls(data) ==
    LET nn == SelectSeq(data, IsValue)
    IN  [i \in 1..Len(nn) |-> nn[i][1]]

\* Series.null_count()
NullCount(data) == Cardinality({i \in 1..Len(data) : data[i] = None})

\* Series.n_unique(): the number of distinct cells; polars counts null as
\* one more distinct value.
NUnique(data) == Cardinality({data[i] : i \in 1..Len(data)})

RECURSIVE SumSeq(_)
SumSeq(xs) == IF xs = <<>> THEN 0 ELSE Head(xs) + SumSeq(Tail(xs))

\* The k-th smallest (k from 1) of a non-empty sequence of integers
KthSmallest(xs, k) ==
    CHOOSE v \in {xs[i] : i \in 1..Len(xs)} :
        /\ Cardinality({i \in 1..Len(xs) : xs[i] < v}) < k
        /\ Cardinality({i \in 1..Len(xs) : xs[i] <= v}) >= k

\* Series.min(), Series.max(), Series.mean(): None when no value is non-null
SeriesMin(data) ==
    LET xs == DropNulls(data)
    IN  IF xs = <<>> THEN None ELSE Some(KthSmallest(xs, 1))

SeriesMax(data) ==
    LET xs == DropNulls(data)
    IN  IF xs = <<>> THEN None ELSE Some(KthSmallest(xs, Len(xs)))

SeriesMean(data) ==
    LET xs == DropNulls(data)
    IN  IF xs = <<>> THEN None ELSE Some(PyDiv(SumSeq(xs), Len(xs)))

\* Series.std() (ddof = 1): None unless at least two values are non-null
SeriesStd(data) ==
    LET xs == DropNulls(data)
        n  == Len(xs)
        sq == [i \in 1..n |-> xs[i] * xs[i]]
    IN  IF n <= 1 THEN None
        ELSE Some(PySqrt(n * SumSeq(sq) - SumSeq(xs) * SumSeq(xs), n * (n - 1)))

\* Series.quantile(quarters / 4, interpolation="nearest"): the value at the
\* rank nearest to (n - 1) * q among the sorted non-null values
SeriesQuantile(data, quarters) ==
    LET xs == DropNulls(data)
        idx == ((Len(xs) - 1) * quarters + 2) \div 4
    IN  IF xs = <<>> THEN None ELSE Some(KthSmallest(xs, idx + 1))

\* The injective sequences over all of S: every order a set can come out in
Orders(S) ==
    {p \in [1..Cardinality(S) -> S] :
        \A i, j \in 1..Cardinality(S) : i # j => p[i] # p[j]}

\* Series.head(n) / list[:n]
Take(xs, n) == SubSeq(xs, 1, IF Len(xs) < n THEN Len(xs) ELSE n)

\* ------------------------------------------------------------------ profiler

\* A result of a call that may raise: raised, or not raised with a value.
Raise == [raised |-> TRUE, value |-> None]
Return(v) == [raised |-> FALSE, value |-> Some(v)]

NUMERIC_ALL_NULL ==
    [min |-> None, max |-> None, mean |-> None, std |-> None,
     p25 |-> None, p50 |-> None, p75 |-> None]

\* float(x) raises TypeError on None: _profile_numeric raises when any of
\* the seven aggregates it converts is None.
_profile_numeric(s) ==
    LET d == s.data
        q(k) == SeriesQuantile(d, k)
        std == IF Len(d) > 1 THEN SeriesStd(d) ELSE Some(ZERO)
    IN  IF Len(d) = 0 THEN Return(NUMERIC_ALL_NULL)
        ELSE IF None \in {SeriesMin(d), SeriesMax(d), SeriesMean(d), std, q(1), q(2), q(3)}
        THEN Raise
        ELSE Return([min  |-> Some(PyFloat(SeriesMin(d)[1])),
                     max  |-> Some(PyFloat(SeriesMax(d)[1])),
                     mean |-> Some(SeriesMean(d)[1]),
                     std  |-> std,
                     p25  |-> Some(PyFloat(q(1)[1])),
                     p50  |-> Some(PyFloat(q(2)[1])),
                     p75  |-> Some(PyFloat(q(3)[1]))])

\* Series.value_counts(): one row per distinct cell, null included, under
\* the columns <series name> and "count"
ValueCounts(data) ==
    {[value |-> c, count |-> Cardinality({i \in 1..Len(data) : data[i] = c})] :
        c \in {data[i] : i \in 1..Len(data)}}

COL_VALUES == <<"v","a","l","u","e","s">>

\* The lists _profile_categorical can return.  value_counts() yields its rows
\* in no particular order and sort("count", descending=True) keeps no order
\* among equal counts: any order of the rows with non-increasing counts,
\* cut to top_k.  row["values"] is a KeyError unless the series is named
\* "values".
_profile_categorical(s, top_k) ==
    LET vc == ValueCounts(s.data)
        sorted == {p \in Orders(vc) :
                      \A i, j \in 1..Len(p) : i < j => p[i].count >= p[j].count}
    IN  IF Len(s.data) = 0 THEN {Return([top_k |-> <<>>])}
        ELSE IF s.name # COL_VALUES THEN {Raise}
        ELSE {Return([top_k |-> Take(p, top_k)]) : p \in sorted}

\* The lists _sample_values can return: Series.unique() keeps no order, so
\* any order of the distinct non-null values, cut to max_samples.
_sample_values(s, max_samples) ==
    LET xs == DropNulls(s.data)
    IN  {Take(p, max_samples) : p \in Orders({xs[i] : i \in 1..Len(xs)})}

\* Lines 128-159 of profile_dataset for one column: the typed block, chosen
\* by the if / elif chain over the dtype name.
NO_BLOCKS == [numeric_stats |-> None, categorical_stats |-> None, datetime_stats |-> None]

TypedBlocks(s, non_null_count) ==
    IF _is_numeric_dtype(s.dtype) THEN
        LET r == _profile_numeric(s)
        IN  {IF r.raised THEN Raise
             ELSE Return([NO_BLOCKS EXCEPT !.numeric_stats = r.value])}
    ELSE IF _is_datetime_dtype(s.dtype) THEN
        IF non_null_count > 0
        THEN {Return([NO_BLOCKS EXCEPT !.datetime_stats =
                        Some([min |-> Some(PyStr(SeriesMin(s.data))),
                              max |-> Some(PyStr(SeriesMax(s.data)))])])}
        ELSE {Return([NO_BLOCKS EXCEPT !.datetime_stats =
                        Some([min |-> None, max |-> None])])}
    ELSE IF _is_categorical_dtype(s.dtype) THEN
        {IF r.raised THEN Raise
         ELSE Return([NO_BLOCKS EXCEPT !.categorical_stats = r.value]) :
            r \in _profile_categorical(s, MAX_TOP_K)}
    ELSE {Return(NO_BLOCKS)}

\* What the loop body (lines 125-161) can produce for the column at idx.
ColumnOutcomes(s, idx, row_count) ==
    LET null_count == NullCount(s.data)
        non_null_count == row_count - null_count
        completeness == IF row_count > 0 THEN PyDiv(non_null_count, row_count) ELSE ZERO
        distinct_count == NUnique(s.data)
        uniqueness == IF non_null_count > 0
                      THEN PyDiv(distinct_count, non_null_count) ELSE ZERO
    IN  {IF b.raised THEN Raise
         ELSE Return([position |-> idx,
                      dtype |-> s.dtype,
                      non_null_count |-> non_null_count,
                      null_count |-> null_count,
                      completeness |-> completeness,
                      distinct_count |-> distinct_count,
                      uniqueness |-> uniqueness,
                      sample_values |-> sv,
                      numeric_stats |-> b.value[1].numeric_stats,
                      categorical_stats |-> b.value[1].categorical_stats,
                      datetime_stats |-> b.value[1].datetime_stats]) :
            sv \in _sample_values(s, MAX_SAMPLES),
            b \in TypedBlocks(s, non_null_count)}

\* The loop of lines 124-161 over the first k columns of df: the ordered
\* name -> profile mapping built so far, or the column at which it raised.
RECURSIVE ColumnsOutcomes(_, _, _)
ColumnsOutcomes(df, row_count, k) ==
    IF k = 0 THEN {[raised |-> FALSE, raised_at |-> 0, columns |-> <<>>]}
    ELSE {IF pre.raised THEN pre
          ELSE IF c.raised THEN [raised |-> TRUE, raised_at |-> k, columns |-> <<>>]
          ELSE [pre EXCEPT !.columns =
                   Append(@, [name |-> df[k].name, profile |-> c.value[1]])] :
             pre \in ColumnsOutcomes(df, row_count, k - 1),
             c \in ColumnOutcomes(df[k], k - 1, row_count)}

\* os.path.basename(path)
Basename(path) ==
    LET slashes == {i \in 1..Len(path) : path[i] = "/"}
        last == CHOOSE i \in slashes : \A j \in slashes : j <= i
    IN  IF slashes = {} THEN path ELSE SubSeq(path, last + 1, Len(path))

\* _load_lazy(path): TRUE when a scan is built, FALSE when ValueError is raised
_load_lazy(path) ==
    \/ EndsWith(Lower(path), EXT_PARQUET)
    \/ EndsWith(Lower(path), EXT_PQ)
    \/ EndsWith(Lower(path), EXT_CSV)

\* Number of rows of a parsed file
PhysicalRows(content) ==
    IF content.columns = <<>> THEN 0 ELSE Len(content.columns[1].data)

Min(a, b) == IF a < b THEN a ELSE b

\* lf.head(MAX_ROWS_PROFILE) collected: the first rows of every column
HeadRows(content, n) ==
    [k \in 1..Len(content.columns) |->
        [content.columns[k] EXCEPT !.data = Take(@, n)]]

\* Lines 116-163 of profile_dataset: the returns, or the raises, it can end in
\* for the row count of line 113 and the table of line 114.
ProfileResults(path, row_count, df) ==
    {IF o.raised THEN [raised |-> TRUE, raised_at |-> o.raised_at, profile |-> None]
     ELSE [raised |-> FALSE, raised_at |-> 0,
           profile |-> Some([dataset_name |-> Basename(path),
                             path |-> path,
                             row_count |-> row_count,
                             column_count |-> Len(df),
                             columns |-> o.columns])] :
        o \in ColumnsOutcomes(df, row_count, Len(df))}

\* ------------------------------------------------------------------ inputs

Cells == {None} \cup {Some(v) : v \in Vals}

DT_INT64 == <<"I","n","t","6","4">>
DT_DATETIME_NS == <<"D","a","t","e","t","i","m","e","[","n","s","]">>
DT_BOOLEAN == <<"B","o","o","l","e","a","n">>

\* Physical types a Parquet file can carry, and those scan_csv infers.
ParquetDTypes == {DT_INT64, DT_DATE, DT_DATETIME_NS, DT_UTF8, DT_CATEGORICAL, DT_BOOLEAN}
CsvDTypes == {DT_INT64, DT_UTF8}

COL_C == <<"c">>
ColumnNames == {COL_VALUES, COL_C}

\* The headers a file can have: distinct names, in any order
Headers == UNION {Orders(S) : S \in (SUBSET ColumnNames) \ {{}}}

\* The parsed tables of at most MaxCells cells over the given dtypes
TablesOf(h, n, dtypes) ==
    { [k \in 1..Len(h) |-> [name |-> h[k], dtype |-> dt[k], data |-> ds[k]]] :
        dt \in [1..Len(h) -> dtypes],
        ds \in [1..Len(h) -> [1..n -> Cells]] }

Tables(dtypes) ==
    UNION { UNION { TablesOf(h, n, dtypes) :
                      n \in {m \in 0..MaxCells : m * Len(h) <= MaxCells} } :
            h \in Headers }

\* A file that does not parse
CORRUPT == [parse_ok |-> FALSE, columns |-> <<>>]

Parsed(table) == [parse_ok |-> TRUE, columns |-> table]

NAME_CSV == <<"a",".","C","S","V">>
NAME_PQ == <<"a",".","p","q">>
NAME_TXT == <<"a",".","t","x","t">>
NAME_DOTCSV == <<".","c","s","v">>

\* The uploads of a client: a file name and the bytes.  The bytes of an
\* upload that is rejected by its name are never read, one content stands
\* for them.
Files ==
    {[filename |-> NAME_CSV, content |-> Parsed(t)] : t \in Tables(CsvDTypes)}
    \cup {[filename |-> NAME_PQ, content |-> Parsed(t)] : t \in Tables(ParquetDTypes)}
    \cup {[filename |-> f, content |-> CORRUPT] :
            f \in {NAME_CSV, NAME_PQ, NAME_TXT, NAME_DOTCSV, <<>>}}

\* Two clients writing the same stored path: one Int64 column "c" of at most
\* MAX_ROWS_PROFILE rows.
RaceFiles ==
    {[filename |-> NAME_PQ,
      content |-> Parsed(<<[name |-> COL_C, dtype |-> DT_INT64, data |-> d]>>)] :
        d \in UNION {[1..n -> Cells] : n \in 0..MAX_ROWS_PROFILE}}
    \cup {[filename |-> f, content |-> CORRUPT] : f \in {NAME_PQ, NAME_TXT}}

\* ------------------------------------------------------------------ state

Workers == {1, 2}

VARIABLES
    uploads,     \* the files the clients send
    fs,          \* the data directories: stored path -> content
    db,          \* the committed rows of datasets, dataset_columns, column_profiles
    nreq,        \* upload requests received so far
    pc,          \* per worker process: where its upload_dataset call stands
    req,         \* per worker: the request's id, file name, content and stored path
    row_count,   \* per worker: profile_dataset's row_count (line 113)
    df,          \* per worker: profile_dataset's df (line 114)
    result,      \* per worker: what profile_dataset returned or raised
    response,    \* per worker: the HTTP response of the request
    trace,       \* per worker: file operations and profile_dataset calls of the request
    runs         \* the returns of profile_dataset so far, with the table profiled

vars == <<uploads, fs, db, nreq, pc, req, row_count, df, result, response, trace, runs>>

NO_REQ == [id |-> 0, filename |-> <<>>, content |-> CORRUPT, stored_path |-> <<>>]
NO_TRACE == [file_ops |-> 0, profile_calls |-> 0]
EMPTY_DB == [datasets |-> {}, dataset_columns |-> {}, column_profiles |-> {}]

InitWith(pool) ==
    /\ uploads \in pool
    /\ fs = <<>>
    /\ db = EMPTY_DB
    /\ nreq = 0
    /\ pc = [w \in Workers |-> "idle"]
    /\ req = [w \in Workers |-> NO_REQ]
    /\ row_count = [w \in Workers |-> 0]
    /\ df = [w \in Workers |-> <<>>]
    /\ result = [w \in Workers |-> None]
    /\ response = [w \in Workers |-> None]
    /\ trace = [w \in Workers |-> NO_TRACE]
    /\ runs = <<>>

\* Writing content at path
WriteFile(files, path, content) ==
    [p \in (DOMAIN files) \cup {path} |-> IF p = path THEN content ELSE files[p]]

SUPPORTED_EXTS == {EXT_CSV, EXT_PARQUET, EXT_PQ}

\* upload_dataset, lines 44-54: no file name, or an extension outside the
\* supported ones: 400 before anything is written or read.
UploadReject(w) ==
    /\ pc[w] = "idle"
    /\ nreq < MaxRequests
    /\ \E file \in uploads :
        /\ \/ file.filename = <<>>
           \/ Lower(SplitExt(file.filename)) \notin SUPPORTED_EXTS
        /\ req' = [req EXCEPT ![w] = [id |-> nreq + 1, filename |-> file.filename,
                                      content |-> file.content, stored_path |-> <<>>]]
    /\ nreq' = nreq + 1
    /\ response' = [response EXCEPT ![w] = Some([status |-> 400, dataset_id |-> 0])]
    /\ pc' = [pc EXCEPT ![w] = "responded"]
    /\ UNCHANGED <<uploads, fs, db, row_count, df, result, trace, runs>>

\* The stored path of lines 57-66
StoredPath(filename) ==
    IF Lower(SplitExt(filename)) \in {EXT_PARQUET, EXT_PQ}
    THEN PathJoin(DATA_PARQUET_DIR, filename)
    ELSE PathJoin(DATA_RAW_DIR, filename)

\* upload_dataset, lines 44-66: the upload is written under DATA_RAW_DIR and,
\* if Parquet, moved to DATA_PARQUET_DIR.
UploadSave(w) ==
    /\ pc[w] = "idle"
    /\ nreq < MaxRequests
    /\ \E file \in uploads :
        /\ file.filename # <<>>
        /\ Lower(SplitExt(file.filename)) \in SUPPORTED_EXTS
        /\ req' = [req EXCEPT ![w] = [id |-> nreq + 1, filename |-> file.filename,
                                      content |-> file.content,
                                      stored_path |-> StoredPath(file.filename)]]
        /\ fs' = WriteFile(fs, StoredPath(file.filename), file.content)
    /\ nreq' = nreq + 1
    /\ trace' = [trace EXCEPT ![w].file_ops = @ + 1]
    /\ pc' = [pc EXCEPT ![w] = "saved"]
    /\ UNCHANGED <<uploads, db, row_count, df, result, response, runs>>

RAISED_AT_LOAD == [raised |-> TRUE, raised_at |-> 0, profile |-> None]

\* profile_dataset, lines 110-113: the scan is built and the rows of its
\* head are counted, reading the file as it is now.
ProfileLoad(w) ==
    /\ pc[w] = "saved"
    /\ trace' = [trace EXCEPT ![w].file_ops = @ + 1, ![w].profile_calls = @ + 1]
    /\ LET path == req[w].stored_path
       IN  IF /\ _load_lazy(path)
              /\ path \in DOMAIN fs
              /\ fs[path].parse_ok
           THEN /\ row_count' = [row_count EXCEPT ![w] =
                        Min(PhysicalRows(fs[path]), MAX_ROWS_PROFILE)]
                /\ pc' = [pc EXCEPT ![w] = "counted"]
                /\ UNCHANGED result
           ELSE /\ result' = [result EXCEPT ![w] = Some(RAISED_AT_LOAD)]
                /\ pc' = [pc EXCEPT ![w] = "raised"]
                /\ UNCHANGED row_count
    /\ UNCHANGED <<uploads, fs, db, nreq, req, df, response, runs>>

\* profile_dataset, line 114: the head is collected, reading the file again.
ProfileCollect(w) ==
    /\ pc[w] = "counted"
    /\ trace' = [trace EXCEPT ![w].file_ops = @ + 1]
    /\ LET path == req[w].stored_path
       IN  IF path \in DOMAIN fs /\ fs[path].parse_ok
           THEN /\ df' = [df EXCEPT ![w] = HeadRows(fs[path], MAX_ROWS_PROFILE)]
                /\ pc' = [pc EXCEPT ![w] = "collected"]
                /\ UNCHANGED result
           ELSE /\ result' = [result EXCEPT ![w] = Some(RAISED_AT_LOAD)]
                /\ pc' = [pc EXCEPT ![w] = "raised"]
                /\ UNCHANGED df
    /\ UNCHANGED <<uploads, fs, db, nreq, req, row_count, response, runs>>

\* profile_dataset, lines 116-163: every column is profiled and the profile
\* returned, or a column's statistics raise.
ProfileColumns(w) ==
    /\ pc[w] = "collected"
    /\ \E r \in ProfileResults(req[w].stored_path, row_count[w], df[w]) :
        /\ result' = [result EXCEPT ![w] = Some(r)]
        /\ pc' = [pc EXCEPT ![w] = IF r.raised THEN "raised" ELSE "returned"]
        /\ runs' = IF r.raised THEN runs
                   ELSE Append(runs, [table |-> df[w], profile |-> r.profile[1]])
    /\ UNCHANGED <<uploads, fs, db, nreq, req, row_count, df, response, trace>>

\* As UploadProfileFailed, had the Dataset row been committed before the
\* profile was computed.
UploadProfileFailed_DatasetFirst(w) ==
    /\ pc[w] = "raised"
    /\ db' = [db EXCEPT !.datasets = @ \cup
                {[id |-> req[w].id, name |-> req[w].filename,
                  stored_path |-> req[w].stored_path,
                  row_count |-> 0, column_count |-> 0]}]
    /\ response' = [response EXCEPT ![w] = Some([status |-> 500, dataset_id |-> 0])]
    /\ pc' = [pc EXCEPT ![w] = "responded"]
    /\ UNCHANGED <<uploads, fs, nreq, req, row_count, df, result, trace, runs>>

\* upload_dataset, lines 69-72: an exception of profile_dataset becomes a 500.
UploadProfileFailed(w) ==
    /\ pc[w] = "raised"
    /\ response' = [response EXCEPT ![w] = Some([status |-> 500, dataset_id |-> 0])]
    /\ pc' = [pc EXCEPT ![w] = "responded"]
    /\ UNCHANGED <<uploads, fs, db, nreq, req, row_count, df, result, trace, runs>>

\* The rows upload_dataset adds for a profile (lines 74-112)
DatasetRow(id, filename, stored_path, profile) ==
    [id |-> id, name |-> filename, stored_path |-> stored_path,
     row_count |-> profile.row_count, column_count |-> profile.column_count]

DatasetColumnRows(id, profile) ==
    {[dataset_id |-> id, name |-> profile.columns[k].name,
      dtype |-> profile.columns[k].profile.dtype,
      position |-> profile.columns[k].profile.position] :
        k \in 1..Len(profile.columns)}

ColumnProfileRows(id, profile) ==
    {LET cp == profile.columns[k].profile
     IN  [dataset_id |-> id, column_name |-> profile.columns[k].name,
          completeness |-> cp.completeness,
          non_null_count |-> cp.non_null_count,
          null_count |-> cp.null_count,
          distinct_count |-> cp.distinct_count,
          uniqueness |-> cp.uniqueness,
          metric_payload |-> [sample_values |-> cp.sample_values,
                              numeric_stats |-> cp.numeric_stats,
                              categorical_stats |-> cp.categorical_stats,
                              datetime_stats |-> cp.datetime_stats]] :
        k \in 1..Len(profile.columns)}

\* upload_dataset, lines 74-121: the dataset, its columns and their profiles
\* are committed and the summary is returned.
UploadPersist(w) ==
    /\ pc[w] = "returned"
    /\ LET profile == result[w][1].profile[1]
           id == req[w].id
       IN  /\ db' = [datasets |-> db.datasets \cup
                        {DatasetRow(id, req[w].filename, req[w].stored_path, profile)},
                     dataset_columns |-> db.dataset_columns \cup
                        DatasetColumnRows(id, profile),
                     column_profiles |-> db.column_profiles \cup
                        ColumnProfileRows(id, profile)]
           /\ response' = [response EXCEPT ![w] = Some([status |-> 200, dataset_id |-> id])]
    /\ pc' = [pc EXCEPT ![w] = "responded"]
    /\ UNCHANGED <<uploads, fs, nreq, req, row_count, df, result, trace, runs>>

\* The response is sent and the worker takes the next request.
Finish(w) ==
    /\ pc[w] = "responded"
    /\ pc' = [pc EXCEPT ![w] = "idle"]
    /\ req' = [req EXCEPT ![w] = NO_REQ]
    /\ row_count' = [row_count EXCEPT ![w] = 0]
    /\ df' = [df EXCEPT ![w] = <<>>]
    /\ result' = [result EXCEPT ![w] = None]
    /\ response' = [response EXCEPT ![w] = None]
    /\ trace' = [trace EXCEPT ![w] = NO_TRACE]
    /\ UNCHANGED <<uploads, fs, db, nreq, runs>>

Step(w) ==
    \/ UploadReject(w)
    \/ UploadSave(w)
    \/ ProfileLoad(w)
    \/ ProfileCollect(w)
    \/ ProfileColumns(w)
    \/ UploadProfileFailed(w)
    \/ UploadPersist(w)
    \/ Finish(w)

\* One worker process, one client re-sending one file.
Init == InitWith({{f} : f \in Files})
Next == Step(1)
Spec == Init /\ [][Next]_vars

\* Two worker processes over the same directories, two clients.
RaceInit == InitWith({{f, g} : f \in RaceFiles, g \in RaceFiles})
RaceNext == \E w \in Workers : Step(w)
RaceSpec == RaceInit /\ [][RaceNext]_vars

\* ------------------------------------------------------------------ claims

\* The worker's profile_dataset call returned a profile.
Returned(w) == result[w] # None /\ ~result[w][1].raised

\* The worker's profile_dataset call got as far as the columns of df.
Profiled(w) == result[w] # None /\ (result[w][1].raised => result[w][1].raised_at >= 1)

ProfileOf(w) == result[w][1].profile[1]

\* The profile of the column at k (from 1) of the worker's returned profile
ColumnProfileOf(w, k) == ProfileOf(w).columns[k].profile

Occurrences(data, cell) == Cardinality({i \in 1..Len(data) : data[i] = cell})

ValueSet(data) == {data[i][1] : i \in {j \in 1..Len(data) : data[j] # None}}

\* The distinct values of a sequence in order of first occurrence
RECURSIVE FirstSeen(_)
FirstSeen(xs) ==
    IF xs = <<>> THEN <<>>
    ELSE LET init == FirstSeen(SubSeq(xs, 1, Len(xs) - 1))
             last == xs[Len(xs)]
         IN  IF \E i \in 1..Len(init) : init[i] = last THEN init ELSE Append(init, last)

\* C1: in every returned profile, a column's distinct_count is the number of
\* distinct non-null values of the column, and so at most non_null_count.
C1_DistinctOverNonNull ==
    \A w \in Workers : Returned(w) =>
        \A k \in 1..Len(df[w]) :
            /\ ColumnProfileOf(w, k).distinct_count = Cardinality(ValueSet(df[w][k].data))
            /\ ColumnProfileOf(w, k).distinct_count <= ColumnProfileOf(w, k).non_null_count

\* C2: in every returned profile, a column's uniqueness is
\* distinct_count / non_null_count, lies in [0, 1], and is 0 exactly when
\* non_null_count is 0.
C2_UniquenessInUnitInterval ==
    \A w \in Workers : Returned(w) =>
        \A k \in 1..Len(df[w]) :
            LET cp == ColumnProfileOf(w, k)
            IN  /\ cp.uniqueness.root = 1
                /\ 0 <= cp.uniqueness.num
                /\ cp.uniqueness.num <= cp.uniqueness.den
                /\ (cp.uniqueness = ZERO) <=> (cp.non_null_count = 0)

\* C3: a Numeric column without a non-null value (no rows, or only null rows)
\* does not make profiling fail, and its numeric_stats is present with all
\* seven fields null.
C3_NumericAllNullBlock ==
    \A w \in Workers : Profiled(w) =>
        \A k \in 1..Len(df[w]) :
            (_is_numeric_dtype(df[w][k].dtype) /\ ValueSet(df[w][k].data) = {}) =>
                /\ ~(result[w][1].raised /\ result[w][1].raised_at = k)
                /\ Returned(w) =>
                      ColumnProfileOf(w, k).numeric_stats = Some(NUMERIC_ALL_NULL)

\* C4: a Numeric column with exactly one non-null value, whatever the number
\* of null rows beside it, does not make profiling fail and has std 0.0.
C4_SingleValueStdFloor ==
    \A w \in Workers : Profiled(w) =>
        \A k \in 1..Len(df[w]) :
            (_is_numeric_dtype(df[w][k].dtype) /\ Len(DropNulls(df[w][k].data)) = 1) =>
                /\ ~(result[w][1].raised /\ result[w][1].raised_at = k)
                /\ Returned(w) =>
                      /\ ColumnProfileOf(w, k).numeric_stats # None
                      /\ ColumnProfileOf(w, k).numeric_stats[1].std = Some(ZERO)

\* C5: in every returned profile, a column's sample_values is the first 5
\* distinct non-null values of the column in order of first occurrence.
C5_SampleFirstSeen ==
    \A w \in Workers : Returned(w) =>
        \A k \in 1..Len(df[w]) :
            ColumnProfileOf(w, k).sample_values =
                Take(FirstSeen(DropNulls(df[w][k].data)), MAX_SAMPLES)

\* C6: in every returned profile, a Categorical column's top_k has at most K
\* entries, every entry is a non-null value of the column with its number of
\* occurrences, counts do not increase along the list, and no non-null value
\* left out occurs more often than a listed one.
C6_TopKOverNonNull ==
    \A w \in Workers : Returned(w) =>
        \A k \in 1..Len(df[w]) :
            _is_categorical_dtype(df[w][k].dtype) =>
                LET data == df[w][k].data
                    cs == ColumnProfileOf(w, k).categorical_stats
                    top == cs[1].top_k
                    listed == {top[i].value : i \in 1..Len(top)}
                IN  /\ cs # None
                    /\ Len(top) <= MAX_TOP_K
                    /\ \A i \in 1..Len(top) :
                          /\ top[i].value # None
                          /\ top[i].value \in {data[j] : j \in 1..Len(data)}
                          /\ top[i].count = Occurrences(data, top[i].value)
                    /\ \A i, j \in 1..Len(top) : i < j => top[i].count >= top[j].count
                    /\ \A v \in ValueSet(data) : Some(v) \notin listed =>
                          \A i \in 1..Len(top) : Occurrences(data, Some(v)) <= top[i].count

\* C7: in every returned profile, row_count is the number of rows of the
\* table that was materialized, and every column has
\* 0 <= null_count <= row_count and non_null_count >= 0, also when another
\* upload replaces the file between the count and the materialization.
C7_RowCountOfMaterializedTable ==
    \A w \in Workers : Returned(w) =>
        /\ \A k \in 1..Len(df[w]) : ProfileOf(w).row_count = Len(df[w][k].data)
        /\ \A k \in 1..Len(df[w]) :
              /\ 0 <= ColumnProfileOf(w, k).null_count
              /\ ColumnProfileOf(w, k).null_count <= ProfileOf(w).row_count
              /\ ColumnProfileOf(w, k).non_null_count >= 0

RowsOfDataset(rows, id) == {r \in rows : r.dataset_id = id}

\* C8: a request that fails leaves nothing behind and is not retried: a 400
\* is answered before any file operation; a raise of profile_dataset, at the
\* load or at any column, ends the request in a 500; a failed request has no
\* dataset id in its response and no row of datasets, dataset_columns or
\* column_profiles; profile_dataset is called at most once per request; every
\* committed dataset has all its column and profile rows.
C8_FailureIsTerminal ==
    /\ \A w \in Workers :
          /\ trace[w].profile_calls <= 1
          /\ (result[w] # None /\ result[w][1].raised) =>
                /\ pc[w] \in {"raised", "responded"}
                /\ result[w][1].profile = None
                /\ pc[w] = "responded" => response[w][1].status = 500
          /\ (response[w] # None /\ response[w][1].status = 400) =>
                /\ trace[w].file_ops = 0
                /\ result[w] = None
          /\ (response[w] # None /\ response[w][1].status # 200) =>
                /\ response[w][1].dataset_id = 0
                /\ \A d \in db.datasets : d.id # req[w].id
                /\ RowsOfDataset(db.dataset_columns, req[w].id) = {}
                /\ RowsOfDataset(db.column_profiles, req[w].id) = {}
    /\ \A d \in db.datasets :
          /\ Cardinality(RowsOfDataset(db.dataset_columns, d.id)) = d.column_count
          /\ Cardinality(RowsOfDataset(db.column_profiles, d.id)) = d.column_count

\* C8's case: the second column's statistics raised after the first column
\* was profiled, and the request was answered with a 500.
C8_Witness ==
    \E w \in Workers :
        /\ pc[w] = "responded"
        /\ response[w][1].status = 500
        /\ result[w][1].raised_at = 2

TypedBlockCount(cp) ==
    Cardinality({b \in {"numeric", "categorical", "datetime"} :
        \/ b = "numeric" /\ cp.numeric_stats # None
        \/ b = "categorical" /\ cp.categorical_stats # None
        \/ b = "datetime" /\ cp.datetime_stats # None})

ClassCount(dtype) ==
    Cardinality({c \in {"numeric", "categorical", "datetime"} :
        \/ c = "numeric" /\ _is_numeric_dtype(dtype)
        \/ c = "categorical" /\ _is_categorical_dtype(dtype)
        \/ c = "datetime" /\ _is_datetime_dtype(dtype)})

\* C9: in every returned profile, a column has at most one typed block; it
\* has numeric_stats exactly when its dtype is Numeric, datetime_stats exactly
\* when Datetime, categorical_stats exactly when Categorical, none when the
\* dtype is in none of the three classes; no dtype is in two classes.
C9_OneTypedBlockPerClass ==
    \A w \in Workers : Returned(w) =>
        \A k \in 1..Len(df[w]) :
            LET cp == ColumnProfileOf(w, k)
            IN  /\ cp.dtype = df[w][k].dtype
                /\ ClassCount(cp.dtype) <= 1
                /\ TypedBlockCount(cp) = ClassCount(cp.dtype)
                /\ (cp.numeric_stats # None) <=> _is_numeric_dtype(cp.dtype)
                /\ (cp.datetime_stats # None) <=> _is_datetime_dtype(cp.dtype)
                /\ (cp.categorical_stats # None) <=> _is_categorical_dtype(cp.dtype)

\* C9's case: a returned profile of two columns, one Datetime with its
\* datetime_stats and one of no class with no block.
C9_Witness ==
    \E w \in Workers :
        /\ Returned(w)
        /\ Len(df[w]) = 2
        /\ \E k \in 1..2 :
              /\ _is_datetime_dtype(df[w][k].dtype)
              /\ TypedBlockCount(ColumnProfileOf(w, k)) = 1
        /\ \E k \in 1..2 :
              /\ ClassCount(df[w][k].dtype) = 0
              /\ TypedBlockCount(ColumnProfileOf(w, k)) = 0

\* C10: two runs of profile_dataset on the same table at the same path
\* return the same profile.
C10_Deterministic ==
    \A i, j \in 1..Len(runs) :
        (runs[i].table = runs[j].table /\ runs[i].profile.path = runs[j].profile.path)
            => runs[i].profile = runs[j].profile

====
